---- MODULE Spec2Model ----
(***************************************************************************)
(* TypeMatchup (src/src/utility.rs): a table of type multipliers, its      *)
(* mutators, and the cached report built by get() and written by print().  *)
(*                                                                         *)
(* A multiplier is an f64 that is 0.0 or a power of two (it starts at 1.0  *)
(* and is only set to 0.0, doubled or halved).  It is held as the integer  *)
(* mult = value * Scale, so doubling and halving are exact, as they are in *)
(* f64 away from overflow and underflow.  A report multiplier is held in   *)
(* hundredths: the f64 the code stores is (hundredths as f64) / 100.0.     *)
(***************************************************************************)
EXTENDS Integers, Sequences, FiniteSets, TLC

VARIABLES
    inner,      \* HashMap<i64, (Arc<str>, f64)>: id -> [name, mult]
    cache,      \* Vec<(f64, Vec<Arc<str>>)>: the cached report
    cleared,    \* whether the last mutator call cleared a built report
    op,         \* the last method called (a mutator's _name and _resource variants under its name)
    ref,        \* the type reference the last single-type mutator was given
    rel,        \* the relations the last apply_relations was given
    applied,    \* the modify_type calls made by the last apply_relations, in order
    result,     \* "ok" or "err": what the last method returned
    returned,   \* what the last get() returned
    derived,    \* whether the last get() ran the fold over `inner`
    gets,       \* get() calls since the last mutator call, counted up to 2
    out         \* the writes the last print() completed, in order

vars == <<inner, cache, cleared, op, ref, rel, applied, result, returned, derived, gets, out>>

----------------------------------------------------------------------------
(* Bounds of the exploration *)

\* doublings from 1.0 explored in a table of one entry
MaxDoublings == 10
\* halvings from 1.0 explored in a table of one entry; also fixes Scale
MaxHalvings == 8
\* doublings and halvings from 1.0 explored in a table of several entries
NarrowBits == 1
\* the latest write of a print() that is made to fail
MaxWrites == 6

Scale == 2 ^ MaxHalvings
One == Scale

\* `type_.id < 19` in new()
BaseCutoff == 19
\* u16::MAX, the value `as u16` saturates to
U16Max == 65535

----------------------------------------------------------------------------
(* The external catalog and type references *)

\* identifiers the API may serve; 19 is not a base type
CatalogIds == {1, 2, 3, 19}

\* a reference the API cannot resolve (follow / get_by_name returns Err)
Unresolvable == 0
Refs == CatalogIds \cup {Unresolvable}

\* the localized names the API serves for a type, in two catalogs: in "B"
\* type 3 has no English name and its first name equals type 1's English name
Names(catalog, id) ==
    CASE id = 1 -> <<[language |-> "ja", name |-> "Honoo"], [language |-> "en", name |-> "Fire"]>>
      [] id = 2 -> <<[language |-> "en", name |-> "Water"]>>
      [] id = 3 -> IF catalog = "A"
                   THEN <<[language |-> "en", name |-> "Grass"]>>
                   ELSE <<[language |-> "fr", name |-> "Fire"], [language |-> "de", name |-> "Feuer"]>>
      [] OTHER  -> <<[language |-> "en", name |-> "Stellar"]>>

\* byte-wise order of the display names (Ord for str)
NameOrder == <<"Feuer", "Fire", "Grass", "Honoo", "Stellar", "Water">>
NameRank(s) == CHOOSE i \in 1..Len(NameOrder) : NameOrder[i] = s
NameLt(a, b) == NameRank(a) < NameRank(b)

\* list.iter().find(predicate).or_else(|| list.first()), the predicate given as the
\* set of positions it holds at; the list is non-empty here
linear_search(list, hits) ==
    IF hits # {}
    THEN list[CHOOSE i \in hits : \A j \in hits : i <= j]
    ELSE list[1]

\* linear_search(list, |v| v.language.name == "en")
english_search(list) ==
    linear_search(list, {i \in 1..Len(list) : list[i].language = "en"})

\* the table new() builds from the catalog entries `ids`
new(catalog, ids) ==
    [id \in {i \in ids : i < BaseCutoff} |->
        [name |-> english_search(Names(catalog, id)).name, mult |-> One]]

\* the catalogs a table is built from: no base type, one, two, two of three, and
\* three with two identifiers under one display name
Catalogs ==
    {[names |-> "A", ids |-> {19}],
     [names |-> "A", ids |-> {1, 19}],
     [names |-> "A", ids |-> {1, 2, 19}],
     [names |-> "A", ids |-> {2, 3}],
     [names |-> "B", ids |-> {1, 2, 3, 19}]}

Perms(S) ==
    {s \in [1..Cardinality(S) -> S] : \A i, j \in 1..Cardinality(S) : i # j => s[i] # s[j]}

NoRelations ==
    [no_damage_from |-> <<>>, double_damage_from |-> <<>>, half_damage_from |-> <<>>]

Init ==
    /\ \E c \in Catalogs : inner = new(c.names, c.ids)
    /\ cache = <<>>
    /\ cleared = FALSE
    /\ op = "new"
    /\ ref = Unresolvable
    /\ rel = NoRelations
    /\ applied = <<>>
    /\ result = "ok"
    /\ returned = <<>>
    /\ derived = FALSE
    /\ gets = 0
    /\ out = <<>>

----------------------------------------------------------------------------
(* Mutators *)

\* Modify with no_damage_from halving, as half_damage_from does
Modify_NoDamageHalves(kind, v) ==
    CASE kind = "no_damage_from"     -> v \div 2
      [] kind = "half_damage_from"   -> v \div 2
      [] kind = "double_damage_from" -> v * 2

\* Modify with double_damage_from assigning 2.0 (`=` for `*=`)
Modify_DoubleAssigns(kind, v) ==
    CASE kind = "no_damage_from"     -> 0
      [] kind = "half_damage_from"   -> v \div 2
      [] kind = "double_damage_from" -> 2 * One

\* the closures handed to modify_type: |v| *v = 0.0, |v| *v /= 2.0, |v| *v *= 2.0
Modify(kind, v) ==
    CASE kind = "no_damage_from"     -> 0
      [] kind = "half_damage_from"   -> v \div 2
      [] kind = "double_damage_from" -> v * 2

\* modify_type without the cache.clear()
modify_type_KeepsCache(tbl, c, id, kind) ==
    [inner   |-> IF id \in DOMAIN tbl
                 THEN [tbl EXCEPT ![id].mult = Modify(kind, @)]
                 ELSE tbl,
     cache   |-> c,
     cleared |-> c # <<>>]

\* modify_type with entry(..).or_insert(..): a type that is not in the table is added
modify_type_Inserts(tbl, c, id, kind) ==
    [inner   |-> [x \in DOMAIN tbl \cup {id} |->
                    IF x \in DOMAIN tbl /\ x # id THEN tbl[x]
                    ELSE [name |-> IF x \in DOMAIN tbl THEN tbl[x].name
                                   ELSE english_search(Names("A", x)).name,
                          mult |-> Modify(kind, IF x \in DOMAIN tbl THEN tbl[x].mult ELSE One)]],
     cache   |-> <<>>,
     cleared |-> c # <<>>]

\* modify_type on the pair (inner, cache): `if !self.cache.is_empty()` the cache
\* is cleared, then self.inner.entry(type_.id).and_modify(|(_, v)| modify(v))
modify_type(tbl, c, id, kind) ==
    [inner   |-> IF id \in DOMAIN tbl
                 THEN [tbl EXCEPT ![id].mult = Modify(kind, @)]
                 ELSE tbl,
     cache   |-> <<>>,
     cleared |-> c # <<>>]

\* the explored range of multipliers: wide in a one-entry table, narrow otherwise
Bits(tbl, wide) == IF Cardinality(DOMAIN tbl) <= 1 THEN wide ELSE NarrowBits
InBounds(tbl) ==
    \A id \in DOMAIN tbl :
        \/ tbl[id].mult = 0
        \/ /\ tbl[id].mult * (2 ^ Bits(tbl, MaxHalvings)) >= One
           /\ tbl[id].mult <= One * (2 ^ Bits(tbl, MaxDoublings))

\* halving stays exact in the integer representation
Exact(tbl, id, kind) ==
    kind = "half_damage_from" /\ id \in DOMAIN tbl => tbl[id].mult % 2 = 0

History(name, r, res) ==
    /\ op' = name
    /\ ref' = r
    /\ result' = res
    /\ rel' = NoRelations
    /\ applied' = <<>>
    /\ returned' = <<>>
    /\ derived' = FALSE
    /\ gets' = 0
    /\ out' = <<>>

\* no_damage_from / half_damage_from / double_damage_from: the caller holds a Type
Direct(kind, id) ==
    /\ Exact(inner, id, kind)
    /\ inner' = modify_type(inner, cache, id, kind).inner
    /\ InBounds(inner')
    /\ cache' = modify_type(inner, cache, id, kind).cache
    /\ cleared' = modify_type(inner, cache, id, kind).cleared
    /\ History(kind, id, "ok")

\* the _name and _resource variants: resolve the reference first, `?` on failure
Resolving(kind, r) ==
    IF r = Unresolvable
    THEN /\ History(kind, r, "err")
         /\ cleared' = FALSE
         /\ UNCHANGED <<inner, cache>>
    ELSE /\ Exact(inner, r, kind)
         /\ inner' = modify_type(inner, cache, r, kind).inner
         /\ InBounds(inner')
         /\ cache' = modify_type(inner, cache, r, kind).cache
         /\ cleared' = modify_type(inner, cache, r, kind).cleared
         /\ History(kind, r, "ok")

no_damage_from(id) == Direct("no_damage_from", id)
half_damage_from(id) == Direct("half_damage_from", id)
double_damage_from(id) == Direct("double_damage_from", id)
no_damage_from_name(r) == Resolving("no_damage_from", r)
half_damage_from_name(r) == Resolving("half_damage_from", r)
double_damage_from_name(r) == Resolving("double_damage_from", r)
no_damage_from_resource(r) == Resolving("no_damage_from", r)
half_damage_from_resource(r) == Resolving("half_damage_from", r)
double_damage_from_resource(r) == Resolving("double_damage_from", r)

----------------------------------------------------------------------------
(* apply_relations *)

Relations(no, dbl, half) ==
    [no_damage_from |-> no, double_damage_from |-> dbl, half_damage_from |-> half]

\* the damage relations explored: none; Fire's (Grass immune, Water doubled); a type
\* both immune and doubled; a type doubled and halved; unknown types only; a
\* follow that fails in the second loop; one that fails last; all three lists used
RelationInputs ==
    {Relations(<<>>, <<>>, <<>>),
     Relations(<<3>>, <<2>>, <<>>),
     Relations(<<1>>, <<1>>, <<>>),
     Relations(<<>>, <<1, 2>>, <<2>>),
     Relations(<<19>>, <<19>>, <<19>>),
     Relations(<<2>>, <<Unresolvable, 1>>, <<1>>),
     Relations(<<>>, <<>>, <<1, Unresolvable>>),
     Relations(<<1>>, <<2>>, <<3>>)}

\* one `for type_ in &list { self.X_resource(type_).await?; }` loop, from entry i on.
\* st = [tbl, cache, cleared, log, ok, exact]; a failed follow ends the call.
RECURSIVE ApplyList(_, _, _, _)
ApplyList(st, list, kind, i) ==
    IF ~st.ok \/ i > Len(list) THEN st
    ELSE IF list[i] = Unresolvable THEN [st EXCEPT !.ok = FALSE]
    ELSE LET m == modify_type(st.tbl, st.cache, list[i], kind)
         IN  ApplyList([tbl     |-> m.inner,
                        cache   |-> m.cache,
                        cleared |-> st.cleared \/ m.cleared,
                        log     |-> Append(st.log, <<kind, list[i]>>),
                        ok      |-> TRUE,
                        exact   |-> st.exact /\ Exact(st.tbl, list[i], kind)],
                       list, kind, i + 1)

\* ApplyAll with the half_damage_from loop before the double_damage_from loop
ApplyAll_HalfBeforeDouble(st, r) ==
    ApplyList(ApplyList(ApplyList(st, r.no_damage_from, "no_damage_from", 1),
                        r.half_damage_from, "half_damage_from", 1),
              r.double_damage_from, "double_damage_from", 1)

\* the three loops of apply_relations in the order the code runs them
ApplyAll(st, r) ==
    ApplyList(ApplyList(ApplyList(st, r.no_damage_from, "no_damage_from", 1),
                        r.double_damage_from, "double_damage_from", 1),
              r.half_damage_from, "half_damage_from", 1)

apply_relations(r) ==
    LET st == ApplyAll([tbl |-> inner, cache |-> cache, cleared |-> FALSE,
                        log |-> <<>>, ok |-> TRUE, exact |-> TRUE], r)
    IN  /\ st.exact
        /\ inner' = st.tbl
        /\ InBounds(inner')
        /\ cache' = st.cache
        /\ cleared' = st.cleared
        /\ op' = "apply_relations"
        /\ ref' = Unresolvable
        /\ rel' = r
        /\ applied' = st.log
        /\ result' = IF st.ok THEN "ok" ELSE "err"
        /\ returned' = <<>>
        /\ derived' = FALSE
        /\ gets' = 0
        /\ out' = <<>>

----------------------------------------------------------------------------
(* get and print *)

Min(a, b) == IF a < b THEN a ELSE b

\* (*mult * 100.0).round() as u16: round half away from zero, saturating cast
Key(mult) == Min((200 * mult + Scale) \div (2 * Scale), U16Max)

\* hundredths h below 200 for which ((h as f64 / 100.0) * 100.0) as u16 = h - 1 in
\* f64; 200, 400, ..., 51200 and 65535 come back unchanged
LossyHundredths == {29, 57, 58, 113, 114, 115, 116}
\* the sort key of a collected group: (*m * 100.0) as u16, a truncating cast
SortKey(h) == IF h \in LossyHundredths THEN h - 1 ELSE h

\* the fold over inner.iter(): each name is pushed on the Vec of its key
RECURSIVE Fold(_, _, _)
Fold(tbl, ord, i) ==
    IF i = 0 THEN [k \in {Key(tbl[id].mult) : id \in DOMAIN tbl} |-> <<>>]
    ELSE LET map == Fold(tbl, ord, i - 1)
             k   == Key(tbl[ord[i]].mult)
         IN  [map EXCEPT ![k] = Append(@, tbl[ord[i]].name)]

\* Vec::dedup: removes consecutive repeated elements
RECURSIVE dedup(_)
dedup(v) ==
    IF Len(v) <= 1 THEN v
    ELSE IF v[1] = v[2] THEN dedup(Tail(v))
    ELSE <<v[1]>> \o dedup(Tail(v))

\* insertion of x into an ascending sequence
RECURSIVE Insert(_, _)
Insert(x, v) ==
    IF v = <<>> THEN <<x>>
    ELSE IF NameLt(v[1], x) THEN <<v[1]>> \o Insert(x, Tail(v))
    ELSE <<x>> \o v

\* v.sort_unstable() on names
RECURSIVE sort_unstable(_)
sort_unstable(v) == IF v = <<>> THEN v ELSE Insert(v[1], sort_unstable(Tail(v)))

\* .map(|(m, mut v)| { v.dedup(); v.sort_unstable(); (m as f64 / 100.0, v) })
Group(m, v) == [mult |-> m, names |-> sort_unstable(dedup(v))]

\* Sorted without the reverse(): ascending sort keys
Sorted_NoReverse(s) ==
    \A i, j \in 1..Len(s) : i < j => SortKey(s[i].mult) <= SortKey(s[j].mult)

\* sort_unstable_by_key(|(m, _)| (*m * 100.0) as u16) then reverse(): s lists the
\* groups with no sort key below a later one
Sorted(s) == \A i, j \in 1..Len(s) : i < j => SortKey(s[i].mult) >= SortKey(s[j].mult)

\* the report rebuilt in get() when inner.iter() yields the entries in order ord
\* (a set: the unstable sort may leave groups with equal sort keys either way)
ReportsIn(tbl, ord) ==
    LET map    == Fold(tbl, ord, Len(ord))
        groups == {Group(k, map[k]) : k \in DOMAIN map}
    IN  {s \in Perms(groups) : Sorted(s)}

\* HashMap iteration order is unspecified: every order of the entries is possible
Reports(tbl) == UNION {ReportsIn(tbl, ord) : ord \in Perms(DOMAIN tbl)}

\* the cache after get(): rebuilt if it is empty, else as it is
Rebuilds(c) == c = <<>>

get ==
    /\ IF Rebuilds(cache)
       THEN cache' \in Reports(inner)
       ELSE cache' = cache
    /\ derived' = Rebuilds(cache)
    /\ cleared' = (cleared /\ Rebuilds(cache))
    /\ returned' = cache'
    /\ gets' = Min(gets + 1, 2)
    /\ op' = "get"
    /\ result' = "ok"
    /\ ref' = Unresolvable
    /\ rel' = NoRelations
    /\ applied' = <<>>
    /\ out' = <<>>
    /\ UNCHANGED inner

\* the writes print() makes for report c: per group the formatted line, then b'\n'
RECURSIVE Writes(_)
Writes(c) ==
    IF c = <<>> THEN <<>>
    ELSE <<[line |-> c[1]], [line |-> "newline"]>> \o Writes(Tail(c))

\* print(): get(), then write after write until one fails (`?`); fail = 0: none fails
print(fail) ==
    /\ IF Rebuilds(cache)
       THEN cache' \in Reports(inner)
       ELSE cache' = cache
    /\ derived' = Rebuilds(cache)
    /\ cleared' = (cleared /\ Rebuilds(cache))
    /\ returned' = cache'
    /\ gets' = Min(gets + 1, 2)
    /\ fail \in 0..Len(Writes(cache'))
    /\ out' = IF fail = 0 THEN Writes(cache') ELSE SubSeq(Writes(cache'), 1, fail - 1)
    /\ result' = IF fail = 0 THEN "ok" ELSE "err"
    /\ op' = "print"
    /\ ref' = Unresolvable
    /\ rel' = NoRelations
    /\ applied' = <<>>
    /\ UNCHANGED inner

Next ==
    \/ \E id \in CatalogIds : no_damage_from(id)
    \/ \E id \in CatalogIds : half_damage_from(id)
    \/ \E id \in CatalogIds : double_damage_from(id)
    \/ \E r \in Refs : no_damage_from_name(r)
    \/ \E r \in Refs : half_damage_from_name(r)
    \/ \E r \in Refs : double_damage_from_name(r)
    \/ \E r \in Refs : no_damage_from_resource(r)
    \/ \E r \in Refs : half_damage_from_resource(r)
    \/ \E r \in Refs : double_damage_from_resource(r)
    \/ \E r \in RelationInputs : apply_relations(r)
    \/ get
    \/ \E fail \in 0..MaxWrites : print(fail)

Spec == Init /\ [][Next]_vars

----------------------------------------------------------------------------
(* Claims *)

Reported == op \in {"get", "print"}
Mutators == {"no_damage_from", "half_damage_from", "double_damage_from"}
Ids == DOMAIN inner

\* C1: the cache is never stale: a report held in the cache, and every report
\* get() returns, is a report of the table as it is at that moment
C1_CacheNeverStale ==
    /\ cache # <<>> => cache \in Reports(inner)
    /\ Reported => returned \in Reports(inner)

\* a get() that rebuilt the report after a mutator had cleared a built one
C1_Witness ==
    /\ op = "get" /\ derived /\ cleared
    /\ \E id \in Ids : inner[id].mult # One
    /\ returned # <<>>

\* C2: the second of two consecutive get() calls does not re-derive the report,
\* for every table, the empty one included
C2_SecondGetCached == gets = 2 => ~derived

\* C3: in every report returned, the names of each group are strictly ascending
C3_NamesStrictlyAscending ==
    Reported =>
        \A g \in 1..Len(returned) :
            \A i, j \in 1..Len(returned[g].names) :
                i < j => NameLt(returned[g].names[i], returned[g].names[j])

\* C4: in every report returned, each group's multiplier is strictly greater than
\* that of the group after it
C4_GroupsStrictlyDescending ==
    Reported =>
        \A g \in 1..(Len(returned) - 1) : returned[g].mult > returned[g + 1].mult

\* a report of three groups
C4_Witness == op = "get" /\ Len(returned) = 3

\* the mutations a call with relations r makes when every follow succeeds
Tagged(kind, list) == [i \in 1..Len(list) |-> <<kind, list[i]>>]
Planned(r) ==
    Tagged("no_damage_from", r.no_damage_from)
        \o Tagged("double_damage_from", r.double_damage_from)
        \o Tagged("half_damage_from", r.half_damage_from)
Rank(kind) ==
    CASE kind = "no_damage_from" -> 1
      [] kind = "double_damage_from" -> 2
      [] kind = "half_damage_from" -> 3

Listed(r) ==
    {r.no_damage_from[i] : i \in 1..Len(r.no_damage_from)}
        \cup {r.double_damage_from[i] : i \in 1..Len(r.double_damage_from)}
        \cup {r.half_damage_from[i] : i \in 1..Len(r.half_damage_from)}

\* C6: no step changes the set of identifiers or a display name; a mutator given
\* a type that is not in the table returns no error and changes no multiplier,
\* and apply_relations changes no entry that its lists do not name
C6_KeysNeverChange ==
    [][/\ DOMAIN inner' = DOMAIN inner
       /\ \A id \in DOMAIN inner : inner'[id].name = inner[id].name
       /\ (op' \in Mutators /\ ref' # Unresolvable /\ ref' \notin DOMAIN inner)
             => (inner' = inner /\ result' = "ok")
       /\ op' = "apply_relations"
             => \A id \in DOMAIN inner \ Listed(rel') : inner'[id] = inner[id]
      ]_vars

\* a mutator was given a type outside a table that holds changed multipliers
C6_Witness ==
    /\ op \in Mutators /\ ref # Unresolvable /\ ref \notin Ids /\ result = "ok"
    /\ \E id \in Ids : inner[id].mult \notin {0, One}

\* C7: a print() that fails has written no line of its report
C7_NoPartialReport == (op = "print" /\ result = "err") => out = <<>>

\* C8: no_damage_from for a type of the table leaves it at exactly 0.0 and every
\* other entry as it was; every no_damage_from entry of an apply_relations call
\* that was applied leaves its type at 0.0
C8_NoDamageIsZero ==
    [][/\ (op' = "no_damage_from" /\ result' = "ok" /\ ref' \in DOMAIN inner)
             => inner' = [inner EXCEPT ![ref'].mult = 0]
       /\ op' = "apply_relations"
             => \A i \in 1..Len(applied') :
                    (applied'[i][1] = "no_damage_from" /\ applied'[i][2] \in DOMAIN inner)
                        => inner'[applied'[i][2]].mult = 0
      ]_vars

\* no_damage_from zeroed one entry beside another that is neither 0.0 nor 1.0
C8_Witness ==
    /\ op = "no_damage_from" /\ result = "ok" /\ ref \in Ids
    /\ inner[ref].mult = 0
    /\ \E id \in Ids \ {ref} : inner[id].mult \notin {0, One}

Abs(x) == IF x < 0 THEN -x ELSE x
\* h hundredths is the multiplier mult rounded to two decimal places
RoundsTo(mult, h) == 2 * Abs(100 * mult - h * Scale) <= Scale

\* C9: the report returned is a partition of the table: no group is empty, every
\* entry's name is in the group of its multiplier rounded to two decimal places
\* and in no other group of that multiplier, and every name of a group belongs to
\* an entry whose multiplier rounds to the group's
C9_ReportPartitionsTable ==
    Reported =>
        /\ \A g \in 1..Len(returned) : returned[g].names # <<>>
        /\ \A id \in Ids :
              \E g \in 1..Len(returned) :
                  /\ RoundsTo(inner[id].mult, returned[g].mult)
                  /\ \E i \in 1..Len(returned[g].names) : returned[g].names[i] = inner[id].name
                  /\ \A h \in 1..Len(returned) :
                        RoundsTo(inner[id].mult, returned[h].mult) => h = g
        /\ \A g \in 1..Len(returned) :
              \A i \in 1..Len(returned[g].names) :
                  \E id \in Ids : /\ inner[id].name = returned[g].names[i]
                                  /\ RoundsTo(inner[id].mult, returned[g].mult)

\* C10: every multiplier is non-negative, and one that is 0.0 stays 0.0
C10_ZeroAbsorbing ==
    /\ [](\A id \in Ids : inner[id].mult >= 0)
    /\ [][\A id \in DOMAIN inner : inner[id].mult = 0 => inner'[id].mult = 0]_vars

\* an entry at 0.0 was doubled
C10_Witness ==
    /\ op = "double_damage_from" /\ result = "ok" /\ ref \in Ids
    /\ inner[ref].mult = 0
    /\ \E id \in Ids : inner[id].mult > One

====
